---- MODULE Spec2Model ----
(***************************************************************************)
(* A model of process_referrals.py: the referral reconciliation script.   *)
(*                                                                         *)
(* A table (pandas DataFrame) is a record [cols, rows]: cols is the set   *)
(* of column names and rows a sequence of functions from cols to cells.   *)
(* A cell is a string, as read from CSV text; NULL is the missing cell    *)
(* (NaN).  Key columns hold numeric ids, and the column names of the      *)
(* input tables are those of the data model, so the join's dtype check    *)
(* never fires.                                                            *)
(*                                                                         *)
(* Three specifications:                                                   *)
(*   Spec       the whole script, from the content of the data directory  *)
(*              to final_report.csv;                                       *)
(*   SpecValid  check_valid applied to one reconciled record;             *)
(*   SpecTz     utc_to_local applied to one (timestamp, zone) pair.       *)
(***************************************************************************)
EXTENDS Integers, Sequences, FiniteSets, TLC

VARIABLES
    data_dir,                \* the files of DATA_DIR: file name -> table
    lead_log, paid_transactions, referral_rewards, user_logs,
    user_referral_logs, user_referral_statuses, user_referrals,
    profiling_report,        \* rows of profiling_report.csv ({}: not written)
    df,                      \* the accumulating joined dataset
    final_report,            \* final_report.csv, EmptyDF until written
    written,                 \* whether final_report.csv was written
    pc,                      \* position in the script
    err,                     \* the exception that ended the run, "" if none
    row, valid,              \* SpecValid: the record and check_valid's result
    ts, tz_name, local       \* SpecTz: the arguments and utc_to_local's result

vars == <<data_dir, lead_log, paid_transactions, referral_rewards, user_logs,
          user_referral_logs, user_referral_statuses, user_referrals,
          profiling_report, df, final_report, written, pc, err,
          row, valid, ts, tz_name, local>>

(***************************************************************************)
(* Bounds of the model.                                                    *)
(***************************************************************************)
MaxLogs == 2     \* rows of user_referral_logs
MaxRef == 2      \* rows of user_referrals
MaxRows == 2     \* rows of a joined table (rewards, transactions, users)

(***************************************************************************)
(* Cells and tables.                                                       *)
(***************************************************************************)
NULL == "NaN"

isnull(c) == c = NULL

notnull(c) == c # NULL

EmptyDF == [cols |-> {}, rows |-> <<>>]

\* DataFrame.empty: some axis has length 0.
Empty(t) == t.cols = {} \/ Len(t.rows) = 0

\* row.get(c): None when the column is absent; None and NaN are both null.
Get(r, c) == IF c \in DOMAIN r THEN r[c] ELSE NULL

Max(S) == CHOOSE m \in S : \A n \in S : n <= m

RECURSIVE Flatten(_)
Flatten(ss) == IF ss = <<>> THEN <<>> ELSE Head(ss) \o Flatten(Tail(ss))

\* The order Python gives the strings the model sorts (ids, timestamps).
StrOrder == <<"1", "2", "2024-01-01T00:00Z", "2024-01-02T00:00Z",
              "2024-01-03T00:00Z", "3", "9">>

Rank(s) == CHOOSE i \in 1..Len(StrOrder) : StrOrder[i] = s

\* df.rename(columns=m): m maps old names to new ones.
Rename(t, m) ==
    LET New(c) == IF c \in DOMAIN m THEN m[c] ELSE c
        cols2 == {New(c) : c \in t.cols}
        Old(c2) == CHOOSE c \in t.cols : New(c) = c2
    IN [cols |-> cols2,
        rows |-> [i \in 1..Len(t.rows) |-> [c2 \in cols2 |-> t.rows[i][Old(c2)]]]]

\* df[cs]: the columns cs of t.
Project(t, cs) ==
    [cols |-> cs, rows |-> [i \in 1..Len(t.rows) |-> [c \in cs |-> t.rows[i][c]]]]

\* The name a column of one side has in the merge's result: a column both
\* sides have (other than the key) gets that side's suffix.
MergedName(c, overlap, sfx) == IF c \in overlap THEN c \o sfx ELSE c

\* Mutant of LeftJoinRow: how='inner', a left row without match is dropped.
LeftJoinRowInner(l, right, on, overlap, lsfx, rsfx) ==
    LET ms == SelectSeq(right.rows, LAMBDA r : r[on] = l[on])
        outcols == {MergedName(c, overlap, lsfx) : c \in DOMAIN l}
                   \cup {MergedName(c, overlap, rsfx) : c \in right.cols \ {on}}
        IsLeft(c) == \E lc \in DOMAIN l : MergedName(lc, overlap, lsfx) = c
        LCol(c) == CHOOSE lc \in DOMAIN l : MergedName(lc, overlap, lsfx) = c
        RCol(c) == CHOOSE rc \in right.cols \ {on} :
                       MergedName(rc, overlap, rsfx) = c
    IN [i \in 1..Len(ms) |->
           [c \in outcols |-> IF IsLeft(c) THEN l[LCol(c)] ELSE ms[i][RCol(c)]]]

\* Mutant of LeftJoinRow: a left row without match takes the values of the
\* right table's first row (the tables put side by side, not joined).
LeftJoinRowBySide(l, right, on, overlap, lsfx, rsfx) ==
    LET ms == SelectSeq(right.rows, LAMBDA r : r[on] = l[on])
        outcols == {MergedName(c, overlap, lsfx) : c \in DOMAIN l}
                   \cup {MergedName(c, overlap, rsfx) : c \in right.cols \ {on}}
        IsLeft(c) == \E lc \in DOMAIN l : MergedName(lc, overlap, lsfx) = c
        LCol(c) == CHOOSE lc \in DOMAIN l : MergedName(lc, overlap, lsfx) = c
        RCol(c) == CHOOSE rc \in right.cols \ {on} :
                       MergedName(rc, overlap, rsfx) = c
        Out(r, filled) ==
            [c \in outcols |-> IF IsLeft(c) THEN l[LCol(c)]
                               ELSE IF filled THEN r[RCol(c)] ELSE NULL]
    IN IF ms = <<>>
       THEN IF right.rows = <<>> THEN << Out(l, FALSE) >>
            ELSE << Out(right.rows[1], TRUE) >>
       ELSE [i \in 1..Len(ms) |-> Out(ms[i], TRUE)]

\* The rows one left row contributes to a how='left' merge: one per right
\* row with an equal key (pandas matches a NaN key with a NaN key), in the
\* right table's order; a single null-filled row when there is none.
LeftJoinRow(l, right, on, overlap, lsfx, rsfx) ==
    LET ms == SelectSeq(right.rows, LAMBDA r : r[on] = l[on])
        outcols == {MergedName(c, overlap, lsfx) : c \in DOMAIN l}
                   \cup {MergedName(c, overlap, rsfx) : c \in right.cols \ {on}}
        IsLeft(c) == \E lc \in DOMAIN l : MergedName(lc, overlap, lsfx) = c
        LCol(c) == CHOOSE lc \in DOMAIN l : MergedName(lc, overlap, lsfx) = c
        RCol(c) == CHOOSE rc \in right.cols \ {on} :
                       MergedName(rc, overlap, rsfx) = c
        Out(r, matched) ==
            [c \in outcols |-> IF IsLeft(c) THEN l[LCol(c)]
                               ELSE IF matched THEN r[RCol(c)] ELSE NULL]
    IN IF ms = <<>> THEN << Out(l, FALSE) >>
       ELSE [i \in 1..Len(ms) |-> Out(ms[i], TRUE)]

\* left.merge(right, how='left', on=on, suffixes=(lsfx, rsfx)); the caller
\* has checked that both tables have the column on.
Merge(left, right, on, lsfx, rsfx) ==
    LET overlap == (left.cols \cap right.cols) \ {on}
    IN [cols |-> {MergedName(c, overlap, lsfx) : c \in left.cols}
                 \cup {MergedName(c, overlap, rsfx) : c \in right.cols \ {on}},
        rows |-> Flatten([i \in 1..Len(left.rows) |->
                    LeftJoinRow(left.rows[i], right, on, overlap, lsfx, rsfx)])]

\* Whether merge raises KeyError: the key is missing on one side.
MergeKeyError(left, right, on) == on \notin left.cols \/ on \notin right.cols

(***************************************************************************)
(* Latest log per referral (line 100).                                     *)
(***************************************************************************)
Perms(n) == {p \in [1..n -> 1..n] : \A i, j \in 1..n : p[i] = p[j] => i = j}

\* t.sort_values(by): the orders of the rows the sort may produce.  The
\* non-null values come first in ascending order, the nulls last in their
\* original order (na_position='last').  The default kind='quicksort' is
\* not a stable sort: rows with equal values come in either order.
sort_values(t, by) ==
    {p \in Perms(Len(t.rows)) :
        \A i, j \in 1..Len(t.rows) :
            i < j =>
                LET a == t.rows[p[i]][by]
                    b == t.rows[p[j]][by]
                IN /\ isnull(a) => (isnull(b) /\ p[i] < p[j])
                   /\ (notnull(a) /\ notnull(b)) => Rank(a) <= Rank(b)}

\* GroupBy.last() of one column: the last non-null value of the group, null
\* when the group has none.
LastNonNull(group, c) ==
    LET idx == {i \in 1..Len(group) : notnull(group[i][c])}
    IN IF idx = {} THEN NULL ELSE group[Max(idx)][c]

\* The keys of the groups, ascending (groupby sorts them and drops null).
GroupKeys(t, key) ==
    LET ks == {t.rows[i][key] : i \in 1..Len(t.rows)} \ {NULL}
    IN CHOOSE s \in [1..Cardinality(ks) -> ks] :
           \A i, j \in 1..Cardinality(ks) : i < j => Rank(s[i]) < Rank(s[j])

\* t (rows in the order p).groupby(key).last().reset_index()
groupby_last(t, p, key) ==
    LET sorted == [i \in 1..Len(t.rows) |-> t.rows[p[i]]]
        ks == GroupKeys(t, key)
        Group(k) == SelectSeq(sorted, LAMBDA r : r[key] = k)
    IN [cols |-> t.cols,
        rows |-> [n \in 1..Len(ks) |->
                    [c \in t.cols |-> IF c = key THEN ks[n]
                                      ELSE LastNonNull(Group(ks[n]), c)]]]

(***************************************************************************)
(* Text conversions.                                                       *)
(***************************************************************************)
\* str(cell): NaN prints as "nan".
Str(c) == IF isnull(c) THEN "nan" ELSE c

LowerMap ==
    "Berhasil" :> "berhasil" @@ "BERHASIL" :> "berhasil"
    @@ "Menunggu" :> "menunggu" @@ "Tidak Berhasil" :> "tidak berhasil"
    @@ "PAID" :> "paid" @@ "NEW" :> "new"

\* str.lower(): the strings of the model not listed are in lower case.
Lower(s) == IF s \in DOMAIN LowerMap THEN LowerMap[s] ELSE s

UpperMap ==
    "paid" :> "PAID" @@ "Paid" :> "PAID" @@ "pending" :> "PENDING"
    @@ "new" :> "NEW" @@ "New" :> "NEW" @@ "renewal" :> "RENEWAL"
    @@ "nan" :> "NAN"

\* str.upper(): the strings of the model not listed are in upper case.
Upper(s) == IF s \in DOMAIN UpperMap THEN UpperMap[s] ELSE s

TitleMap ==
    "budi santoso" :> "Budi Santoso" @@ "SITI AMINAH" :> "Siti Aminah"
    @@ "jakarta pusat" :> "Jakarta Pusat"

\* str.title(): the strings of the model not listed have no letters or are
\* in title case.
Title(s) == IF s \in DOMAIN TitleMap THEN TitleMap[s] ELSE s

\* safe_initcap (lines 31-36)
safe_initcap(val) == IF isnull(val) THEN val ELSE Title(Str(val))

\* Column names that contain "name", and that contain "homeclub".
ContainsName == {"name", "referee_name", "referrer_name"}

ContainsHomeclub == {"homeclub", "referrer_homeclub"}

NumVal ==
    "50000" :> 50000 @@ "100" :> 100 @@ "0" :> 0 @@ "-5" :> (0 - 5)

\* pd.to_numeric(errors='coerce') of one cell: null when it is no number.
to_numeric(c) == IF c \in DOMAIN NumVal THEN c ELSE NULL

(***************************************************************************)
(* Timestamps.  A parsed timestamp is [ok, wall, aware, off]: wall is the  *)
(* wall-clock time in hours since 2024-01-01T00:00, aware whether the     *)
(* text carried a zone, off its UTC offset in hours.                      *)
(***************************************************************************)
Stamp(w, a, o) == [ok |-> TRUE, wall |-> w, aware |-> a, off |-> o]

NoStamp == [ok |-> FALSE, wall |-> 0, aware |-> FALSE, off |-> 0]

DateText ==
    "2023-12-31T00:00Z" :> Stamp(0 - 24, TRUE, 0)
    @@ "2024-01-01T00:00Z" :> Stamp(0, TRUE, 0)
    @@ "2024-01-02T00:00Z" :> Stamp(24, TRUE, 0)
    @@ "2024-01-03T00:00Z" :> Stamp(48, TRUE, 0)
    @@ "2024-01-02 00:00:00" :> Stamp(24, FALSE, 0)
    @@ "2024-01-01T05:00:00+07:00" :> Stamp(5, TRUE, 7)
    @@ "2024-06-01T10:00:00Z" :> Stamp(3658, TRUE, 0)
    @@ "2024-06-01 10:00:00" :> Stamp(3658, FALSE, 0)
    @@ "2024-06-01T10:00:00+07:00" :> Stamp(3658, TRUE, 7)
    @@ "2024-06-01T20:00:00Z" :> Stamp(3668, TRUE, 0)
    @@ "2024-05-31T22:00:00-05:00" :> Stamp(3646, TRUE, 0 - 5)
    @@ "2024-06-02 01:30" :> Stamp(3673, FALSE, 0)

\* dateutil's parser.parse / pd.to_datetime(errors='coerce') of a text:
\* the texts of the model not listed do not parse.
ParseDate(s) == IF s \in DOMAIN DateText THEN DateText[s] ELSE NoStamp

\* pytz.all_timezones (the zones the model uses) with their UTC offsets.
UtcOffset ==
    "Asia/Jakarta" :> 7 @@ "UTC" :> 0 @@ "America/Bogota" :> (0 - 5)

all_timezones == DOMAIN UtcOffset

NaT == [kind |-> "NaT", wall |-> 0, off |-> 0]

\* Mutant of utc_to_local: the zone is attached to the parsed wall-clock
\* time (replace(tzinfo=...)) instead of the time being converted to it.
utc_to_local_replace(t, z) ==
    IF isnull(t) THEN NaT
    ELSE LET p == ParseDate(Str(t))
         IN IF ~p.ok THEN NaT
            ELSE IF z # "" /\ z \in all_timezones
                 THEN [kind |-> "naive", wall |-> p.wall, off |-> 0]
                 ELSE [kind |-> "aware", wall |-> p.wall, off |-> p.off]

\* utc_to_local (lines 38-49).  The result is NaT, a naive datetime
\* (kind "naive", wall) or an aware one (kind "aware", wall, off).
utc_to_local(t, z) ==
    IF isnull(t) THEN NaT
    ELSE LET p == ParseDate(Str(t))
             dt == IF p.aware THEN p ELSE [p EXCEPT !.aware = TRUE, !.off = 0]
         IN IF ~p.ok THEN NaT
            ELSE IF z # "" /\ z \in all_timezones
                 THEN [kind |-> "naive",
                       wall |-> dt.wall - dt.off + UtcOffset[z], off |-> 0]
                 ELSE [kind |-> "aware", wall |-> dt.wall, off |-> dt.off]

\* The cell a datetime is stored as: NaT is null.
DateCell(d) == IF d.kind = "NaT" THEN NULL ELSE ToString(d)

(***************************************************************************)
(* check_valid (lines 122-149).  The result is "True", "False", or        *)
(* "TypeError" when the comparison of the two timestamps raises: pandas   *)
(* refuses to order a zone-aware and a naive timestamp.                   *)
(***************************************************************************)
\* pd.to_datetime(row.get(c), errors='coerce'): NaT for null or unparseable.
to_datetime(c) == IF isnull(c) THEN NoStamp ELSE ParseDate(c)

check_valid(r) ==
    LET reward_val == Get(r, "reward_value")
        status == Lower(IF "description" \in DOMAIN r
                        THEN Str(r["description"]) ELSE "")
        tx_status == Upper(IF "transaction_status" \in DOMAIN r
                           THEN Str(r["transaction_status"]) ELSE "")
        tx_type == Upper(IF "transaction_type" \in DOMAIN r
                         THEN Str(r["transaction_type"]) ELSE "")
        tx_id == Get(r, "transaction_id")
        ref_time == to_datetime(Get(r, "referral_at"))
        tx_time == to_datetime(Get(r, "transaction_at"))
        reward_granted == notnull(Get(r, "reward_granted_at"))
        upto_times == /\ notnull(reward_val) /\ NumVal[reward_val] > 0
                      /\ status = "berhasil"
                      /\ notnull(tx_id)
                      /\ tx_status = "PAID"
                      /\ tx_type = "NEW"
                      /\ tx_time.ok /\ ref_time.ok
    IN IF upto_times /\ tx_time.aware # ref_time.aware THEN "TypeError"
       ELSE IF /\ upto_times
               /\ tx_time.wall - tx_time.off >= ref_time.wall - ref_time.off
               /\ reward_granted
            THEN "True"
       ELSE IF status \in {"menunggu", "tidak berhasil"} /\ isnull(reward_val)
            THEN "True"
       ELSE "False"

(***************************************************************************)
(* The input: the files of the data directory.                             *)
(***************************************************************************)
FileNames ==
    {"lead_log.csv", "paid_transactions.csv", "referral_rewards.csv",
     "user_logs.csv", "user_referral_logs.csv", "user_referral_statuses.csv",
     "user_referrals.csv"}

Table(cs, rs) == [cols |-> cs, rows |-> rs]

RefCols ==
    {"referral_id", "referral_source", "referral_at", "referrer_id",
     "referee_id", "referral_reward_id", "transaction_id"}

LogCols == {"user_referral_id", "created_at", "description"}

RewardCols == {"id", "reward_value", "reward_granted_at"}

TransCols ==
    {"transaction_id", "transaction_status", "transaction_type",
     "transaction_at", "timezone_transaction"}

UserCols == {"user_id", "name", "phone_number", "homeclub"}

RefRow(id, rfk, tfk, ufk) ==
    [referral_id |-> id, referral_source |-> "online",
     referral_at |-> "2024-01-01T00:00Z", referrer_id |-> ufk,
     referee_id |-> "9", referral_reward_id |-> rfk, transaction_id |-> tfk]

LogRow(rid, at, d) ==
    [user_referral_id |-> rid, created_at |-> at, description |-> d]

\* The n-th row of each joined table has values of its own.
RewardRow(id, n) ==
    [id |-> id, reward_value |-> IF n = 1 THEN "50000" ELSE "100",
     reward_granted_at |-> "2024-01-03T00:00Z"]

\* The later rows give transaction_at without a zone.
TransRow(tid, n) ==
    [transaction_id |-> tid,
     transaction_status |-> IF n = 1 THEN "paid" ELSE "PAID",
     transaction_type |-> IF n = 1 THEN "new" ELSE "NEW",
     transaction_at |-> IF n = 1 THEN "2024-01-02T00:00Z"
                        ELSE "2024-01-02 00:00:00",
     timezone_transaction |-> IF n = 1 THEN "Asia/Jakarta" ELSE NULL]

UserRow(uid, n) ==
    [user_id |-> uid, name |-> IF n = 1 THEN "budi santoso" ELSE "SITI AMINAH",
     phone_number |-> "0811", homeclub |-> "jakarta pusat"]

\* The description of the n-th log row, when it has one.
LogDesc == <<"Berhasil", "Menunggu", "Tidak Berhasil", "gagal">>

DefaultDir ==
    "lead_log.csv" :> Table({"id", "source"}, << [id |-> "1", source |-> NULL] >>)
    @@ "paid_transactions.csv" :> Table(TransCols, << TransRow("1", 1) >>)
    @@ "referral_rewards.csv" :> Table(RewardCols, << RewardRow("1", 1) >>)
    @@ "user_logs.csv" :> Table(UserCols, << UserRow("1", 1) >>)
    @@ "user_referral_logs.csv" :>
           Table(LogCols, << LogRow("1", "2024-01-01T00:00Z", "Menunggu"),
                             LogRow("1", "2024-01-02T00:00Z", "Berhasil") >>)
    @@ "user_referral_statuses.csv" :>
           Table({"id", "description"}, << [id |-> "1", description |-> "Berhasil"] >>)
    @@ "user_referrals.csv" :>
           Table(RefCols, << RefRow("1", "1", "1", "1"), RefRow("2", "2", "2", "2") >>)

\* Any subset of the seven files is absent.
DirsFiles == {[f \in present |-> DefaultDir[f]] : present \in SUBSET FileNames}

\* One file lacks one of its columns.
DirsColumns ==
    {[DefaultDir EXCEPT ![f] = Project(@, @.cols \ {c})] :
        <<f, c>> \in {fc \in FileNames \X (RefCols \cup LogCols \cup RewardCols
                                            \cup TransCols \cup UserCols) :
                         fc[2] \in DefaultDir[fc[1]].cols}}

\* user_referral_logs holds up to MaxLogs rows: any referral (or none), any
\* created_at (or none), with or without a description.
DirsLogs ==
    UNION {
      {[DefaultDir EXCEPT !["user_referral_logs.csv"] =
            Table(LogCols, [i \in 1..n |->
                LogRow(ch[i][1], ch[i][2], IF ch[i][3] THEN LogDesc[i] ELSE NULL)])] :
        ch \in [1..n -> {NULL, "1", "2"}
                        \X {NULL, "2024-01-01T00:00Z", "2024-01-02T00:00Z"}
                        \X BOOLEAN]} :
      n \in 0..MaxLogs}

JoinedFiles == {"referral_rewards.csv", "paid_transactions.csv", "user_logs.csv"}

\* One joined table holds up to MaxRows rows of any key (or none), and
\* user_referrals up to MaxRef rows of any foreign key to it (or none).
DirsKeys ==
    UNION { UNION {
      {[DefaultDir EXCEPT
          !["user_referrals.csv"] =
              Table(RefCols, [i \in 1..n |->
                  RefRow(ToString(i),
                         IF f = "referral_rewards.csv" THEN lk[i] ELSE "1",
                         IF f = "paid_transactions.csv" THEN lk[i] ELSE "1",
                         IF f = "user_logs.csv" THEN lk[i] ELSE "1")]),
          ![f] = Table(@.cols, [j \in 1..m |->
                  CASE f = "referral_rewards.csv" -> RewardRow(rk[j], j)
                    [] f = "paid_transactions.csv" -> TransRow(rk[j], j)
                    [] OTHER -> UserRow(rk[j], j)])] :
        <<lk, rk>> \in [1..n -> {NULL, "1", "2"}] \X [1..m -> {NULL, "1", "3"}]} :
      <<n, m>> \in (0..MaxRef) \X (0..MaxRows)} :
      f \in JoinedFiles}

\* The foreign keys of one referral row: to a reward, a transaction, a user.
MixedKeys ==
    {<<NULL, NULL, NULL>>, <<"1", "1", "1">>, <<"1", NULL, "2">>,
     <<NULL, "2", "1">>}

\* The keys of the rows of a joined table.
MixedTables == {<< >>, <<"1">>, <<NULL>>, <<"1", NULL>>}

\* All three joined tables and the foreign keys of up to MaxRef referrals
\* vary together.
DirsMixed ==
    UNION {
      {[DefaultDir EXCEPT
          !["user_referrals.csv"] =
              Table(RefCols, [i \in 1..n |->
                  RefRow(ToString(i), fk[i][1], fk[i][2], fk[i][3])]),
          !["referral_rewards.csv"] =
              Table(RewardCols, [j \in 1..Len(ks[1]) |-> RewardRow(ks[1][j], j)]),
          !["paid_transactions.csv"] =
              Table(TransCols, [j \in 1..Len(ks[2]) |-> TransRow(ks[2][j], j)]),
          !["user_logs.csv"] =
              Table(UserCols, [j \in 1..Len(ks[3]) |-> UserRow(ks[3][j], j)])] :
        <<fk, ks>> \in [1..n -> MixedKeys]
                       \X (MixedTables \X MixedTables \X MixedTables)} :
      n \in 1..MaxRef}

\* read_csv (lines 12-18): an absent file is an empty DataFrame.
read_csv(dir, name) == IF name \notin DOMAIN dir THEN EmptyDF ELSE dir[name]

(***************************************************************************)
(* The script.                                                             *)
(***************************************************************************)
NoReport == [header |-> <<>>, rows |-> <<>>]

NoRow == [c \in {} |-> NULL]

\* The variables of SpecValid and SpecTz, which the script leaves alone.
FunctionVarsIdle ==
    /\ row = NoRow /\ valid = ""
    /\ ts = NULL /\ tz_name = NULL /\ local = NaT

Init ==
    /\ data_dir \in DirsFiles \cup DirsColumns \cup DirsLogs \cup DirsKeys
                    \cup DirsMixed
    /\ lead_log = EmptyDF /\ paid_transactions = EmptyDF
    /\ referral_rewards = EmptyDF /\ user_logs = EmptyDF
    /\ user_referral_logs = EmptyDF /\ user_referral_statuses = EmptyDF
    /\ user_referrals = EmptyDF
    /\ profiling_report = {}
    /\ df = EmptyDF
    /\ final_report = NoReport
    /\ written = FALSE
    /\ pc = "load"
    /\ err = ""
    /\ FunctionVarsIdle

\* Lines 52-58
Load ==
    /\ pc = "load"
    /\ lead_log' = read_csv(data_dir, "lead_log.csv")
    /\ paid_transactions' = read_csv(data_dir, "paid_transactions.csv")
    /\ referral_rewards' = read_csv(data_dir, "referral_rewards.csv")
    /\ user_logs' = read_csv(data_dir, "user_logs.csv")
    /\ user_referral_logs' = read_csv(data_dir, "user_referral_logs.csv")
    /\ user_referral_statuses' = read_csv(data_dir, "user_referral_statuses.csv")
    /\ user_referrals' = read_csv(data_dir, "user_referrals.csv")
    /\ pc' = "profile"
    /\ UNCHANGED <<data_dir, profiling_report, df, final_report, written, err,
                   row, valid, ts, tz_name, local>>

\* profile_df (lines 20-29): one record per column.
profile_df(t, name) ==
    {[table |-> name, column |-> c,
      null_count |-> Cardinality({i \in 1..Len(t.rows) : isnull(t.rows[i][c])}),
      distinct_count |->
          Cardinality({t.rows[i][c] : i \in 1..Len(t.rows)} \ {NULL})] :
     c \in t.cols}

\* Lines 60-76: the tables that are not empty are profiled; the report is
\* written when there is any.
Profiling ==
    /\ pc = "profile"
    /\ LET Prof(t, name) == IF Empty(t) THEN {} ELSE profile_df(t, name)
       IN profiling_report' =
              Prof(lead_log, "lead_log")
              \cup Prof(paid_transactions, "paid_transactions")
              \cup Prof(referral_rewards, "referral_rewards")
              \cup Prof(user_logs, "user_logs")
              \cup Prof(user_referral_logs, "user_referral_logs")
              \cup Prof(user_referral_statuses, "user_referral_statuses")
              \cup Prof(user_referrals, "user_referrals")
    /\ pc' = "clean"
    /\ UNCHANGED <<data_dir, lead_log, paid_transactions, referral_rewards,
                   user_logs, user_referral_logs, user_referral_statuses,
                   user_referrals, df, final_report, written, err,
                   row, valid, ts, tz_name, local>>

\* Lines 80-83, for one table.
InitcapNames(t) ==
    [t EXCEPT !.rows = [i \in 1..Len(t.rows) |->
        [c \in t.cols |->
            IF c \in ContainsName /\ c \notin ContainsHomeclub
            THEN safe_initcap(t.rows[i][c]) ELSE t.rows[i][c]]]]

\* Lines 86-87
CoerceRewards(t) ==
    IF "reward_value" \in t.cols
    THEN [t EXCEPT !.rows = [i \in 1..Len(t.rows) |->
             [t.rows[i] EXCEPT !["reward_value"] = to_numeric(@)]]]
    ELSE t

\* Lines 90-93
LocalizeTransactions(t) ==
    IF "transaction_at" \in t.cols /\ "timezone_transaction" \in t.cols
    THEN [cols |-> t.cols \cup {"transaction_at_local"},
          rows |-> [i \in 1..Len(t.rows) |->
              [c \in t.cols \cup {"transaction_at_local"} |->
                  IF c = "transaction_at_local"
                  THEN DateCell(utc_to_local(t.rows[i]["transaction_at"],
                                             t.rows[i]["timezone_transaction"]))
                  ELSE t.rows[i][c]]]]
    ELSE t

\* Lines 78-93
Cleaning ==
    /\ pc = "clean"
    /\ user_referrals' = InitcapNames(user_referrals)
    /\ user_logs' = InitcapNames(user_logs)
    /\ referral_rewards' = CoerceRewards(referral_rewards)
    /\ paid_transactions' = LocalizeTransactions(paid_transactions)
    /\ pc' = "logs"
    /\ UNCHANGED <<data_dir, lead_log, user_referral_logs,
                   user_referral_statuses, profiling_report, df, final_report,
                   written, err, row, valid, ts, tz_name, local>>

(***************************************************************************)
(* The four join stages (lines 96-119).  A stage gives [ok, df]: ok is    *)
(* FALSE when it raises KeyError, and df is then the dataset as it was.   *)
(***************************************************************************)
Done(d) == [ok |-> TRUE, df |-> d]

Raised(d) == [ok |-> FALSE, df |-> d]

\* Lines 99-101, with the rows of the logs sorted in the order p.
JoinLogs(d, logs, p) ==
    IF ~Empty(logs) /\ "user_referral_id" \in logs.cols
    THEN IF "created_at" \notin logs.cols THEN Raised(d)
         ELSE LET latest_logs == groupby_last(logs, p, "user_referral_id")
                  right == Rename(latest_logs, "user_referral_id" :> "referral_id")
              IN IF MergeKeyError(d, right, "referral_id") THEN Raised(d)
                 ELSE Done(Merge(d, right, "referral_id", "_x", "_y"))
    ELSE Done(d)

\* The orders line 100's sort may give the log rows (none when the stage
\* is skipped or raises before sorting).
LogOrders(logs) ==
    IF ~Empty(logs) /\ "user_referral_id" \in logs.cols
       /\ "created_at" \in logs.cols
    THEN sort_values(logs, "created_at")
    ELSE {<<>>}

\* Lines 104-105
JoinRewards(d, rewards) ==
    IF ~Empty(rewards) /\ "id" \in rewards.cols
    THEN LET right == Rename(rewards, "id" :> "referral_reward_id")
         IN IF MergeKeyError(d, right, "referral_reward_id") THEN Raised(d)
            ELSE Done(Merge(d, right, "referral_reward_id", "_x", "_y"))
    ELSE Done(d)

\* Lines 108-109
JoinTransactions(d, trans) ==
    IF ~Empty(trans) /\ "transaction_id" \in trans.cols
    THEN IF MergeKeyError(d, trans, "transaction_id") THEN Raised(d)
         ELSE Done(Merge(d, trans, "transaction_id", "", "_trans"))
    ELSE Done(d)

ReferrerCols ==
    {"referrer_id", "referrer_name", "referrer_phone_number", "referrer_homeclub"}

\* Lines 112-119: selecting the four columns raises KeyError when one is
\* missing.
JoinReferrer(d, users) ==
    IF ~Empty(users) /\ "user_id" \in users.cols
    THEN LET renamed == Rename(users,
                 "user_id" :> "referrer_id" @@ "name" :> "referrer_name"
                 @@ "phone_number" :> "referrer_phone_number"
                 @@ "homeclub" :> "referrer_homeclub")
         IN IF ~(ReferrerCols \subseteq renamed.cols) THEN Raised(d)
            ELSE LET ref == Project(renamed, ReferrerCols)
                 IN IF MergeKeyError(d, ref, "referrer_id") THEN Raised(d)
                    ELSE Done(Merge(d, ref, "referrer_id", "_x", "_y"))
    ELSE Done(d)

\* The end of a join stage: on to the next one, or the run ends in KeyError.
StageEnds(res, next) ==
    /\ df' = res.df
    /\ pc' = IF res.ok THEN next ELSE "error"
    /\ err' = IF res.ok THEN err ELSE "KeyError"
    /\ UNCHANGED <<data_dir, lead_log, paid_transactions, referral_rewards,
                   user_logs, user_referral_logs, user_referral_statuses,
                   user_referrals, profiling_report, final_report, written,
                   row, valid, ts, tz_name, local>>

\* Lines 96-101
MergeLogs ==
    /\ pc = "logs"
    /\ \E p \in LogOrders(user_referral_logs) :
           StageEnds(JoinLogs(user_referrals, user_referral_logs, p), "rewards")

MergeRewards ==
    /\ pc = "rewards"
    /\ StageEnds(JoinRewards(df, referral_rewards), "trans")

MergeTransactions ==
    /\ pc = "trans"
    /\ StageEnds(JoinTransactions(df, paid_transactions), "referrer")

MergeReferrer ==
    /\ pc = "referrer"
    /\ StageEnds(JoinReferrer(df, user_logs), "validate")

\* Line 151: check_valid on every row; an exception of one row ends the run.
Validate ==
    /\ pc = "validate"
    /\ LET res == [i \in 1..Len(df.rows) |-> check_valid(df.rows[i])]
           raised == \E i \in 1..Len(df.rows) : res[i] = "TypeError"
           cols2 == df.cols \cup {"is_business_logic_valid"}
       IN /\ df' = IF raised THEN df
                   ELSE [cols |-> cols2,
                         rows |-> [i \in 1..Len(df.rows) |->
                             [c \in cols2 |->
                                 IF c = "is_business_logic_valid" THEN res[i]
                                 ELSE df.rows[i][c]]]]
          /\ pc' = IF raised THEN "error" ELSE "report"
          /\ err' = IF raised THEN "TypeError" ELSE err
    /\ UNCHANGED <<data_dir, lead_log, paid_transactions, referral_rewards,
                   user_logs, user_referral_logs, user_referral_statuses,
                   user_referrals, profiling_report, final_report, written,
                   row, valid, ts, tz_name, local>>

\* Lines 154-158
FinalCols ==
    <<"referral_id", "referral_source", "referral_at", "referrer_id",
      "referrer_name", "referee_id", "description", "transaction_id",
      "transaction_status", "transaction_at", "reward_value",
      "reward_granted_at", "is_business_logic_valid">>

\* Mutant of final: the whole list is projected, a column the dataset lacks
\* coming out null (reindex) instead of being dropped.
final_reindex(d) ==
    [header |-> FinalCols,
     rows |-> [i \in 1..Len(d.rows) |->
                  [c \in {FinalCols[k] : k \in 1..Len(FinalCols)} |->
                      Get(d.rows[i], c)]]]

\* Lines 159-160: the columns of the list the dataset has, in the list's
\* order, and the dataset's rows cut to them.
final(d) ==
    LET cols == SelectSeq(FinalCols, LAMBDA c : c \in d.cols)
        cs == {cols[k] : k \in 1..Len(cols)}
    IN [header |-> cols,
        rows |-> [i \in 1..Len(d.rows) |-> [c \in cs |-> d.rows[i][c]]]]

\* Lines 153-163
Report ==
    /\ pc = "report"
    /\ final_report' = final(df)
    /\ written' = TRUE
    /\ pc' = "done"
    /\ UNCHANGED <<data_dir, lead_log, paid_transactions, referral_rewards,
                   user_logs, user_referral_logs, user_referral_statuses,
                   user_referrals, profiling_report, df, err,
                   row, valid, ts, tz_name, local>>

Next ==
    \/ Load
    \/ Profiling
    \/ Cleaning
    \/ MergeLogs
    \/ MergeRewards
    \/ MergeTransactions
    \/ MergeReferrer
    \/ Validate
    \/ Report

Spec == Init /\ [][Next]_vars

(***************************************************************************)
(* SpecValid: check_valid on one reconciled record.                        *)
(***************************************************************************)
ScriptVarsIdle ==
    /\ data_dir = [f \in {} |-> EmptyDF]
    /\ lead_log = EmptyDF /\ paid_transactions = EmptyDF
    /\ referral_rewards = EmptyDF /\ user_logs = EmptyDF
    /\ user_referral_logs = EmptyDF /\ user_referral_statuses = EmptyDF
    /\ user_referrals = EmptyDF
    /\ profiling_report = {}
    /\ df = EmptyDF
    /\ final_report = NoReport
    /\ written = FALSE
    /\ err = ""

ABSENT == "<absent>"

\* The cells a reconciled record may hold in the columns check_valid reads;
\* ABSENT: the record has no such column.  reward_value is a number or
\* null (line 87 has coerced it).
ValidCells ==
    [reward_value |-> {ABSENT, NULL, "50000", "0", "-5"},
     description |-> {ABSENT, NULL, "Berhasil", "berhasil", "Menunggu",
                      "Tidak Berhasil", "gagal"},
     transaction_id |-> {NULL, "1"},
     transaction_status |-> {NULL, "paid", "PAID", "pending"},
     transaction_type |-> {ABSENT, "new", "renewal"},
     referral_at |-> {NULL, "not a date", "2024-01-01T00:00Z",
                      "2024-01-02 00:00:00"},
     transaction_at |-> {NULL, "2023-12-31T00:00Z", "2024-01-02T00:00Z",
                         "2024-01-02 00:00:00", "2024-01-01T05:00:00+07:00"},
     reward_granted_at |-> {NULL, "2024-01-03T00:00Z"}]

ValidRows ==
    {[c \in {x \in DOMAIN ValidCells : ch[x] # ABSENT} |-> ch[c]] :
        ch \in [reward_value : ValidCells.reward_value,
                description : ValidCells.description,
                transaction_id : ValidCells.transaction_id,
                transaction_status : ValidCells.transaction_status,
                transaction_type : ValidCells.transaction_type,
                referral_at : ValidCells.referral_at,
                transaction_at : ValidCells.transaction_at,
                reward_granted_at : ValidCells.reward_granted_at]}

InitValid ==
    /\ ScriptVarsIdle
    /\ pc = "check"
    /\ row \in ValidRows
    /\ valid = ""
    /\ ts = NULL /\ tz_name = NULL /\ local = NaT

\* df.apply(check_valid, axis=1) for one row (line 151)
ApplyCheckValid ==
    /\ pc = "check"
    /\ valid' = check_valid(row)
    /\ pc' = "checked"
    /\ UNCHANGED <<data_dir, lead_log, paid_transactions, referral_rewards,
                   user_logs, user_referral_logs, user_referral_statuses,
                   user_referrals, profiling_report, df, final_report, written,
                   err, row, ts, tz_name, local>>

NextValid == ApplyCheckValid

SpecValid == InitValid /\ [][NextValid]_vars

(***************************************************************************)
(* SpecTz: utc_to_local on one timestamp and zone name.                    *)
(***************************************************************************)
TzTexts ==
    {NULL, "not a date", "2024-06-01T10:00:00Z", "2024-06-01 10:00:00",
     "2024-06-01T10:00:00+07:00", "2024-06-01T20:00:00Z",
     "2024-05-31T22:00:00-05:00", "2024-06-02 01:30", "2024-01-01T00:00Z"}

\* Zone names: null, empty, known to pytz, unknown, and known but for case.
TzNames ==
    {NULL, "", "Asia/Jakarta", "UTC", "America/Bogota", "Mars/Phobos",
     "asia/jakarta"}

InitTz ==
    /\ ScriptVarsIdle
    /\ pc = "convert"
    /\ row = NoRow /\ valid = ""
    /\ ts \in TzTexts
    /\ tz_name \in TzNames
    /\ local = NaT

\* The lambda of lines 91-93 for one row
ApplyUtcToLocal ==
    /\ pc = "convert"
    /\ local' = utc_to_local(ts, tz_name)
    /\ pc' = "converted"
    /\ UNCHANGED <<data_dir, lead_log, paid_transactions, referral_rewards,
                   user_logs, user_referral_logs, user_referral_statuses,
                   user_referrals, profiling_report, df, final_report, written,
                   err, row, valid, ts, tz_name>>

NextTz == ApplyUtcToLocal

SpecTz == InitTz /\ [][NextTz]_vars

(***************************************************************************)
(* Vocabulary of the properties.                                           *)
(***************************************************************************)
\* Positions of the script once the stage named has run without error.
AfterLogs == {"rewards", "trans", "referrer", "validate", "report", "done"}

AfterTransactions == {"referrer", "validate", "report", "done"}

AfterJoins == {"validate", "report", "done"}

Rows(t) == {t.rows[i] : i \in 1..Len(t.rows)}

\* The part of a reconciled record that comes from user_referrals.
ReferralPart(d) == [c \in user_referrals.cols |-> d[c]]

\* The reconciled records of the referral row u.
RecordsOf(u) == {i \in 1..Len(df.rows) : ReferralPart(df.rows[i]) = u}

\* No value, null included, is the key of two rows of the table.
UniqueKey(t, key) ==
    key \in t.cols =>
        \A i, j \in 1..Len(t.rows) : t.rows[i][key] = t.rows[j][key] => i = j

UniqueKeys ==
    /\ UniqueKey(referral_rewards, "id")
    /\ UniqueKey(paid_transactions, "transaction_id")
    /\ UniqueKey(user_logs, "user_id")

(***************************************************************************)
(* C1.  Row-count preservation.                                            *)
(***************************************************************************)
\* C1 as claimed: after the four join stages the reconciled dataset has as
\* many rows as user_referrals, whatever the tables hold.
C1_RowCountAnyContent ==
    pc \in AfterJoins => Len(df.rows) = Len(user_referrals.rows)

\* C1 as amended: after the four join stages the reconciled dataset has as
\* many rows as user_referrals, provided no value (null included) is the
\* id of two referral_rewards rows, the transaction_id of two
\* paid_transactions rows or the user_id of two user_logs rows.
C1_RowCountUniqueKeys ==
    (pc \in AfterJoins /\ UniqueKeys) =>
        Len(df.rows) = Len(user_referrals.rows)

\* All four stages have joined something, keys unique, with one referral
\* matched by a reward and one not.
C1_Witness ==
    /\ pc = "done" /\ UniqueKeys
    /\ {"description", "reward_value", "transaction_status", "referrer_name"}
           \subseteq df.cols
    /\ Len(user_referrals.rows) = 2
    /\ \E i, j \in 1..Len(df.rows) :
           /\ notnull(df.rows[i]["reward_value"])
           /\ isnull(df.rows[j]["reward_value"])

(***************************************************************************)
(* C4.  Left-join nullability of the transaction stage.                    *)
(***************************************************************************)
TransactionColumns ==
    {"transaction_status", "transaction_type", "transaction_at",
     "timezone_transaction", "transaction_at_local"}

\* No row of paid_transactions carries the referral's transaction_id.
NoTransaction(u) ==
    \/ "transaction_id" \notin DOMAIN u
    \/ "transaction_id" \notin paid_transactions.cols
    \/ \A r \in Rows(paid_transactions) :
           r["transaction_id"] # u["transaction_id"]

\* C4: once the transaction stage has run, every referral whose
\* transaction_id is carried by no paid_transactions row still has a
\* reconciled record, and each of its records has null in every column
\* that paid_transactions contributes.
C4_UnmatchedTransactionIsNull ==
    pc \in AfterTransactions =>
        \A u \in Rows(user_referrals) :
            NoTransaction(u) =>
                /\ RecordsOf(u) # {}
                /\ \A i \in RecordsOf(u) : \A c \in TransactionColumns :
                       isnull(Get(df.rows[i], c))

\* The stage has joined a transaction to one referral and none to another,
\* whose transaction_id no row carries.
C4_Witness ==
    /\ pc = "done"
    /\ TransactionColumns \subseteq df.cols
    /\ \E u \in Rows(user_referrals) :
           /\ NoTransaction(u) /\ notnull(u["transaction_id"])
           /\ RecordsOf(u) # {}
    /\ \E i \in 1..Len(df.rows) : notnull(df.rows[i]["transaction_status"])

(***************************************************************************)
(* C8.  utc_to_local.                                                      *)
(***************************************************************************)
\* The instant, in hours UTC, a parsed timestamp denotes: one without zone
\* is taken as UTC.
UtcInstant(p) == IF p.aware THEN p.wall - p.off ELSE p.wall

\* C8: a null or unparseable timestamp gives NaT; with a zone pytz knows
\* the result is the naive wall-clock time in that zone; with a null or
\* unknown zone name it is the same instant as the parsed input; and
\* 2024-06-01T10:00:00Z in Asia/Jakarta is 2024-06-01T17:00:00, naive.
C8_Localization ==
    pc = "converted" =>
        LET p == ParseDate(ts)
        IN /\ (isnull(ts) \/ ~p.ok) => local = NaT
           /\ (notnull(ts) /\ p.ok /\ tz_name \in all_timezones) =>
                  /\ local.kind = "naive"
                  /\ local.wall = UtcInstant(p) + UtcOffset[tz_name]
           /\ (notnull(ts) /\ p.ok /\ tz_name \notin all_timezones) =>
                  /\ local.kind = "aware"
                  /\ local.wall - local.off = UtcInstant(p)
           /\ (ts = "2024-06-01T10:00:00Z" /\ tz_name = "Asia/Jakarta") =>
                  local = [kind |-> "naive", wall |-> 152 * 24 + 17, off |-> 0]

\* A timestamp written with an offset of its own has been converted to a
\* zone pytz knows.
C8_Witness ==
    /\ pc = "converted"
    /\ ts = "2024-06-01T10:00:00+07:00" /\ tz_name = "America/Bogota"
    /\ local.kind = "naive"

(***************************************************************************)
(* C9.  The reporter's projection.                                         *)
(***************************************************************************)
Range(q) == {q[k] : k \in 1..Len(q)}

\* The columns of the report are the names of the fixed list the joined
\* dataset has, in the list's order, once each; the report has the joined
\* dataset's rows, cut to these columns, values unchanged.
ProjectionOfJoined ==
    /\ Range(final_report.header) = Range(FinalCols) \cap df.cols
    /\ \A k1, k2 \in 1..Len(final_report.header) :
           k1 < k2 =>
               \E n1, n2 \in 1..Len(FinalCols) :
                   /\ n1 < n2
                   /\ FinalCols[n1] = final_report.header[k1]
                   /\ FinalCols[n2] = final_report.header[k2]
    /\ Len(final_report.rows) = Len(df.rows)
    /\ \A i \in 1..Len(final_report.rows) :
           /\ DOMAIN final_report.rows[i] = Range(final_report.header)
           /\ \A c \in Range(final_report.header) :
                  final_report.rows[i][c] = df.rows[i][c]

\* C9 as claimed: the projection, and one report row per input referral row.
C9_ProjectionOneRowPerReferral ==
    pc = "done" =>
        /\ ProjectionOfJoined
        /\ Len(final_report.rows) = Len(user_referrals.rows)

\* C9 as amended: the projection, with one report row per row of the
\* joined dataset: one per input referral row when no value (null
\* included) is the key of two rows of a joined table.
C9_Projection ==
    pc = "done" =>
        /\ ProjectionOfJoined
        /\ UniqueKeys => Len(final_report.rows) = Len(user_referrals.rows)

\* A report written from a joined dataset that lacks names of the list and
\* has columns that are not in it.
C9_Witness ==
    /\ pc = "done" /\ written
    /\ Len(final_report.rows) >= 1
    /\ Range(FinalCols) \ df.cols # {}
    /\ df.cols \ Range(FinalCols) # {}

(***************************************************************************)
(* C2.  check_valid as a two-branch predicate.                             *)
(***************************************************************************)
\* Rule A: reward_value present and above zero, description 'berhasil',
\* transaction_id present, status 'PAID' and type 'NEW' (all three texts
\* whatever their case), both timestamps parse, the transaction is not
\* before the referral, reward_granted_at present.
RuleA(r) ==
    /\ notnull(Get(r, "reward_value")) /\ NumVal[Get(r, "reward_value")] > 0
    /\ Lower(Get(r, "description")) = "berhasil"
    /\ notnull(Get(r, "transaction_id"))
    /\ Upper(Get(r, "transaction_status")) = "PAID"
    /\ Upper(Get(r, "transaction_type")) = "NEW"
    /\ ParseDate(Get(r, "referral_at")).ok
    /\ ParseDate(Get(r, "transaction_at")).ok
    /\ UtcInstant(ParseDate(Get(r, "transaction_at")))
           >= UtcInstant(ParseDate(Get(r, "referral_at")))
    /\ notnull(Get(r, "reward_granted_at"))

\* Rule B: description 'menunggu' or 'tidak berhasil' whatever the case,
\* and no reward_value.
RuleB(r) ==
    /\ Lower(Get(r, "description")) \in {"menunggu", "tidak berhasil"}
    /\ isnull(Get(r, "reward_value"))

\* C2: for every reconciled record is_business_logic_valid is true exactly
\* when Rule A or Rule B holds, and false otherwise.
C2_ExhaustiveTwoBranch ==
    pc = "checked" =>
        valid = IF RuleA(row) \/ RuleB(row) THEN "True" ELSE "False"

(***************************************************************************)
(* C3, C10.  The latest log of a referral.                                 *)
(***************************************************************************)
\* The log rows of the referral row u, by position in user_referral_logs.
LogsOf(u) ==
    {i \in 1..Len(user_referral_logs.rows) :
        /\ notnull(u["referral_id"])
        /\ user_referral_logs.rows[i]["user_referral_id"] = u["referral_id"]}

\* The log rows of u whose created_at is the greatest.
LatestOf(u) ==
    {i \in LogsOf(u) :
        \A j \in LogsOf(u) :
            Rank(user_referral_logs.rows[j]["created_at"])
                <= Rank(user_referral_logs.rows[i]["created_at"])}

\* The log stage has run on tables that have the columns it reads.
LogsJoined ==
    /\ pc \in AfterLogs
    /\ LogCols \subseteq user_referral_logs.cols
    /\ "referral_id" \in user_referrals.cols

\* Every log row of u has a created_at.
AllDated(u) ==
    \A i \in LogsOf(u) : notnull(user_referral_logs.rows[i]["created_at"])

\* Every reconciled record of u carries the log columns of the log row i.
ReflectsLogRow(u, i) ==
    \A k \in RecordsOf(u) :
        /\ df.rows[k]["description"] = user_referral_logs.rows[i]["description"]
        /\ df.rows[k]["created_at"] = user_referral_logs.rows[i]["created_at"]

\* C3: for every referral that has log rows, the log columns of its
\* reconciled record are those of one single log row, one with the
\* greatest created_at, nulls included.
C3_SingleLatestLogRow ==
    LogsJoined =>
        \A u \in Rows(user_referrals) :
            (LogsOf(u) # {} /\ AllDated(u)) =>
                \E i \in LatestOf(u) : ReflectsLogRow(u, i)

\* C10: when several log rows of a referral share the greatest created_at,
\* its reconciled record carries the log columns of the last of them in
\* the order of user_referral_logs.
C10_TieBreakLastInOrder ==
    LogsJoined =>
        \A u \in Rows(user_referrals) :
            (AllDated(u) /\ Cardinality(LatestOf(u)) >= 2) =>
                ReflectsLogRow(u, Max(LatestOf(u)))

(***************************************************************************)
(* C5.  Null foreign keys.                                                 *)
(***************************************************************************)
RewardColumns == {"reward_value", "reward_granted_at"}

ReferrerColumns ==
    {"referrer_name", "referrer_phone_number", "referrer_homeclub"}

\* The referral row u has as many reconciled records as user_referrals has
\* rows equal to it, all with null in the columns cs.
OncePerRowWithNull(u, cs) ==
    /\ Cardinality(RecordsOf(u))
           = Cardinality({i \in 1..Len(user_referrals.rows) :
                             user_referrals.rows[i] = u})
    /\ \A i \in RecordsOf(u) : \A c \in cs : isnull(Get(df.rows[i], c))

NullKey(u, fk) == fk \in DOMAIN u /\ isnull(u[fk])

\* C5: after the joins, a referral whose referral_reward_id, transaction_id
\* or referrer_id is null appears once, with null in all the columns of
\* the table that key refers to.
C5_NullKeyMatchesNothing ==
    pc \in AfterJoins =>
        \A u \in Rows(user_referrals) :
            /\ NullKey(u, "referral_reward_id") =>
                   OncePerRowWithNull(u, RewardColumns)
            /\ NullKey(u, "transaction_id") =>
                   OncePerRowWithNull(u, TransactionColumns)
            /\ NullKey(u, "referrer_id") =>
                   OncePerRowWithNull(u, ReferrerColumns)

(***************************************************************************)
(* C6.  Missing columns.                                                   *)
(***************************************************************************)
\* A column the stage needs is missing on one side (the source table
\* itself is not empty).
LogsColumnMissing ==
    /\ ~Empty(user_referral_logs)
    /\ \/ ~({"user_referral_id", "created_at"} \subseteq user_referral_logs.cols)
       \/ "referral_id" \notin user_referrals.cols

RewardsColumnMissing ==
    /\ ~Empty(referral_rewards)
    /\ ("id" \notin referral_rewards.cols \/ "referral_reward_id" \notin df.cols)

TransactionsColumnMissing ==
    /\ ~Empty(paid_transactions)
    /\ \/ "transaction_id" \notin paid_transactions.cols
       \/ "transaction_id" \notin df.cols

ReferrerColumnMissing ==
    /\ ~Empty(user_logs)
    /\ \/ ~({"user_id", "name", "phone_number", "homeclub"} \subseteq user_logs.cols)
       \/ "referrer_id" \notin df.cols

\* C6: a join stage that lacks a column it needs leaves the accumulated
\* dataset as it is and hands over to the next stage without an error.
C6_MissingColumnIsNoOp ==
    [][ /\ (pc = "logs" /\ LogsColumnMissing) =>
               (df' = user_referrals /\ pc' = "rewards")
        /\ (pc = "rewards" /\ RewardsColumnMissing) =>
               (df' = df /\ pc' = "trans")
        /\ (pc = "trans" /\ TransactionsColumnMissing) =>
               (df' = df /\ pc' = "referrer")
        /\ (pc = "referrer" /\ ReferrerColumnMissing) =>
               (df' = df /\ pc' = "validate") ]_vars

(***************************************************************************)
(* C7.  Missing files.                                                     *)
(***************************************************************************)
\* C7: whichever of the seven files are absent (the ones present being
\* complete), the run never ends in an error, and it ends with
\* final_report.csv written.
C7_NoFatalErrorOnMissingFiles ==
    data_dir \in DirsFiles =>
        /\ pc # "error"
        /\ pc = "done" => written

====
